---------------------------- MODULE Spec2Model ----------------------------
(***************************************************************************)
(* Model of app.py: FastQuantumKeyDistribution.bb84_protocol and           *)
(* e91_protocol, each wrapped by @st.cache_data, called from Streamlit     *)
(* script threads (one per browser session) that share                     *)
(*   - the process-wide numpy generator behind np.random.*  (rng), and     *)
(*   - the st.cache_data store of each decorated function   (cache).       *)
(*                                                                         *)
(* A simulation call is split at its calls into np.random: each such call  *)
(* is one atomic step (RandomState serialises its methods with a lock),    *)
(* and the pure Python between two of them is folded into the step that    *)
(* precedes it.  The Mersenne Twister is abstracted to a full-period       *)
(* linear congruential generator over RngMod states; what is kept is that  *)
(* seeding overwrites the one shared state and that every draw reads and   *)
(* advances it.                                                            *)
(***************************************************************************)
EXTENDS Integers, Sequences, FiniteSets, TLC

\* ------------------------------------------------------------- bounds
MaxQubits == 2
MaxSeed == 3
MaxCalls == 2

\* ------------------------------------------------- program constants
\* eve_intercept_prob = 0.2, error_rate > 0.15, correlation_rate < 0.7,
\* as hundredths
eve_intercept_prob == 20
ErrorThreshold == 15
CorrelationThreshold == 70
\* number of states of the abstracted generator
RngMod == 64

Threads == {"s1", "s2"}
Protocols == {"bb84", "e91"}
\* n_qubits: the function itself accepts any integer
QubitArgs == -1..MaxQubits
\* _seed: <<>> is None, <<s>> is the integer s
None == <<>>
SeedArgs == {<<s>> : s \in 0..MaxSeed}
\* the seeds and n_qubits of the calls of two concurrent sessions
ConcurrentSeedArgs == {<<s>> : s \in 0..(MaxSeed \div 2)}
ConcurrentQubitArgs == {MaxQubits}

\* --------------------------------------------------- np.random (global)
RngNext(r) == (13 * r + 7) % RngMod

\* np.random.seed(s): the state becomes a function of s alone
SeedState(s) == (11 * s + 6) % RngMod

\* np.random.randint(2): one draw, the top bit of the new state
RandInt2(r) == [r |-> RngNext(r), v |-> (2 * RngNext(r)) \div RngMod]

\* np.random.randint(2, size=n), n >= 0: n successive draws
RECURSIVE RandIntArray(_, _)
RandIntArray(r, n) ==
    IF n <= 0 THEN [r |-> r, v |-> <<>>]
    ELSE LET d == RandInt2(r)
             rest == RandIntArray(d.r, n - 1)
         IN [r |-> rest.r, v |-> <<d.v>> \o rest.v]

\* np.random.random(): one draw u in [0,1), kept as the numerator u * RngMod
Random(r) == [r |-> RngNext(r), v |-> RngNext(r)]

\* u < eve_intercept_prob
Intercepts(u) == u * 100 < eve_intercept_prob * RngMod

\* the bounded draw of shuffle: an integer in 0..max
RandomInterval(r, max) == [r |-> RngNext(r), v |-> RngNext(r) % (max + 1)]

Swap(arr, a, b) == [arr EXCEPT ![a] = arr[b], ![b] = arr[a]]

\* RandomState.shuffle: for i in reversed(range(1, n)): j = interval(i);
\* swap arr[i], arr[j]   (arr holds 0..n-1; Python index k is arr[k + 1])
RECURSIVE Shuffle(_, _, _)
Shuffle(r, arr, i) ==
    IF i < 1 THEN [r |-> r, v |-> arr]
    ELSE LET d == RandomInterval(r, i)
         IN Shuffle(d.r, Swap(arr, i + 1, d.v + 1), i - 1)

\* np.random.choice(n, k, replace=False) == permutation(n)[:k]
Choice(r, n, k) ==
    LET p == Shuffle(r, [x \in 1..n |-> x - 1], n - 1)
    IN [r |-> p.r, v |-> SubSeq(p.v, 1, k)]


\* ------------------------------------------------------ numpy arithmetic
\* a float result: NaN, or the exact quotient num / den
NaN == [nan |-> TRUE, num |-> 0, den |-> 0]

RECURSIVE CountTrue(_)
CountTrue(flags) ==
    IF flags = <<>> THEN 0
    ELSE (IF Head(flags) THEN 1 ELSE 0) + CountTrue(Tail(flags))

\* np.mean of a boolean / 0-1 array: sum / len, and 0 / 0 is nan
Mean(flags) ==
    IF Len(flags) = 0 THEN NaN
    ELSE [nan |-> FALSE, num |-> CountTrue(flags), den |-> Len(flags)]

\* x > p / 100 and x < p / 100 on floats: false whenever x is nan
GreaterThan(x, p) == ~x.nan /\ x.num * 100 > p * x.den
LessThan(x, p) == ~x.nan /\ x.num * 100 < p * x.den

\* ------------------------------------------------------ bb84 helpers
polarization_symbols(bit, basis) ==
    CASE bit = 0 /\ basis = 0 -> "up"
      [] bit = 0 /\ basis = 1 -> "upright"
      [] bit = 1 /\ basis = 0 -> "right"
      [] bit = 1 /\ basis = 1 -> "downright"

BasisSymbol(b) == IF b = 0 THEN "+" ELSE "X"

Unmeasurable(bob_basis) == IF bob_basis = 0 THEN "?" ELSE "?"

BasesDiffer(alice_basis, bob_basis) == alice_basis # bob_basis
BasesMatch(alice_basis, bob_basis) == alice_basis = bob_basis

BobResultOriginal(bit, eve_intervention) == bit
BobResult(bit, eve_intervention) ==
    IF eve_intervention = None THEN bit ELSE eve_intervention[1]

SharedKeyKept(shared_key, bob_result) == shared_key
SharedKeyAppend(shared_key, bob_result) == Append(shared_key, bob_result)

DetectedBelow(error_rate) == LessThan(error_rate, ErrorThreshold)
Detected(error_rate) == GreaterThan(error_rate, ErrorThreshold)

Eavesdropped(correlation_rate) == LessThan(correlation_rate, CorrelationThreshold)

\* ------------------------------------------------------ a call's frame
\* The locals of a call and its position pc.  Two fields are history only:
\* eve_values keeps the value of eve_intervention of every index, others the
\* seeds of the calls that ran steps while this call was in its body.
IdleFrame ==
    [pc |-> "idle", proto |-> "none", n |-> 0, seed |-> None,
     alice_bits |-> <<>>, alice_bases |-> <<>>, bob_bases |-> <<>>,
     alice_polarizations |-> <<>>, eve_intervention |-> None,
     bob_results |-> <<>>, bob_polarizations |-> <<>>,
     eve_interventions |-> <<>>, matched_bases |-> <<>>, shared_key |-> <<>>,
     comparison_subset |-> <<>>, error_rate |-> NaN,
     correlation_rate |-> NaN,
     eve_values |-> <<>>, others |-> {}]

NewFrame(proto, n, seed) ==
    [IdleFrame EXCEPT !.pc = "wait", !.proto = proto, !.n = n, !.seed = seed]

\* if _seed is not None: np.random.seed(_seed)
SeedStep(f, r) ==
    [f |-> [f EXCEPT !.pc = IF f.proto = "bb84" THEN "alice_bits" ELSE "e91_alice"],
     r |-> IF f.seed # None THEN SeedState(f.seed[1]) ELSE r]

\* alice_bits = np.random.randint(2, size=n_qubits)
\* (a negative size raises ValueError inside randint)
AliceBits(f, r) ==
    IF f.n < 0 THEN [f |-> [f EXCEPT !.pc = "raise"], r |-> r]
    ELSE LET d == RandIntArray(r, f.n)
         IN [f |-> [f EXCEPT !.pc = "alice_bases", !.alice_bits = d.v], r |-> d.r]

AliceBases(f, r) ==
    LET d == RandIntArray(r, f.n)
    IN [f |-> [f EXCEPT !.pc = "bob_bases", !.alice_bases = d.v], r |-> d.r]

\* bob_bases, then the polarizations and the loop's first test
BobBases(f, r) ==
    LET d == RandIntArray(r, f.n)
    IN [f |-> [f EXCEPT
                 !.pc = IF f.n > 0 THEN "eve" ELSE "choice",
                 !.bob_bases = d.v,
                 !.alice_polarizations =
                     [k \in 1..f.n |->
                        polarization_symbols(f.alice_bits[k], f.alice_bases[k])]],
        r |-> d.r]

\* fast_eavesdropping_simulation: np.random.random() < eve_intercept_prob
Eve(f, r) ==
    LET d == Random(r)
    IN [f |-> [f EXCEPT !.pc = IF Intercepts(d.v) THEN "eve_guess" ELSE "reconcile",
                        !.eve_intervention = None],
        r |-> d.r]

\* return np.random.randint(2)
EveGuess(f, r) ==
    LET d == RandInt2(r)
    IN [f |-> [f EXCEPT !.pc = "reconcile", !.eve_intervention = <<d.v>>], r |-> d.r]

\* the loop body after the eavesdropping call, for index Len(matched_bases) + 1
Reconcile(f, r) ==
    LET k == Len(f.matched_bases) + 1
        bit == f.alice_bits[k]
        eve == f.eve_intervention
        pc2 == IF k < f.n THEN "eve" ELSE "choice"
        g == [f EXCEPT !.pc = pc2,
                       !.eve_interventions = Append(@, eve # None),
                       !.eve_values = Append(@, eve),
                       !.eve_intervention = None]
    IN IF BasesMatch(f.alice_bases[k], f.bob_bases[k])
       THEN LET bob_result == BobResult(bit, eve)
            IN [f |-> [g EXCEPT
                         !.matched_bases = Append(@, TRUE),
                         !.bob_results = Append(@, bob_result),
                         !.shared_key = SharedKeyAppend(@, bob_result),
                         !.bob_polarizations = Append(@, f.alice_polarizations[k])],
                r |-> r]
       ELSE LET d == RandInt2(r)
            IN [f |-> [g EXCEPT
                         !.matched_bases = Append(@, FALSE),
                         !.bob_results = Append(@, d.v),
                         !.bob_polarizations = Append(@, Unmeasurable(f.bob_bases[k]))],
                r |-> d.r]

\* comparison_subset and error_rate
ChoiceStep(f, r) ==
    LET d == Choice(r, f.n, f.n \div 2)
        differ == [j \in 1..Len(d.v) |->
                     f.alice_bits[d.v[j] + 1] # f.bob_results[d.v[j] + 1]]
    IN [f |-> [f EXCEPT !.pc = "return", !.comparison_subset = d.v,
                        !.error_rate = Mean(differ)],
        r |-> d.r]

\* e91: alice_bases = np.random.randint(2, size=n_qubits)
E91Alice(f, r) ==
    IF f.n < 0 THEN [f |-> [f EXCEPT !.pc = "raise"], r |-> r]
    ELSE LET d == RandIntArray(r, f.n)
         IN [f |-> [f EXCEPT !.pc = "e91_bob", !.alice_bases = d.v], r |-> d.r]

\* e91: bob_bases, correlated_bits and correlation_rate
E91Bob(f, r) ==
    LET d == RandIntArray(r, f.n)
        correlated_bits == [k \in 1..f.n |-> f.alice_bases[k] = d.v[k]]
    IN [f |-> [f EXCEPT !.pc = "return", !.bob_bases = d.v,
                        !.correlation_rate = Mean(correlated_bits)],
        r |-> d.r]

\* the returned dictionaries
BB84Result(f) ==
    [alice_bits |-> f.alice_bits,
     bob_bits |-> f.bob_results,
     alice_bases |-> [k \in 1..Len(f.alice_bases) |-> BasisSymbol(f.alice_bases[k])],
     bob_bases |-> [k \in 1..Len(f.bob_bases) |-> BasisSymbol(f.bob_bases[k])],
     alice_polarizations |-> f.alice_polarizations,
     bob_polarizations |-> f.bob_polarizations,
     matched_bases |-> f.matched_bases,
     shared_key |-> f.shared_key,
     error_rate |-> f.error_rate,
     eavesdropping_detected |-> Detected(f.error_rate)]

E91Result(f) ==
    [alice_bases |-> f.alice_bases,
     bob_bases |-> f.bob_bases,
     correlation_rate |-> f.correlation_rate,
     eavesdropped |-> Eavesdropped(f.correlation_rate)]

\* what a finished call hands back: a dictionary, or the exception raised
Outcome(f) ==
    IF f.pc = "raise" THEN [exc |-> "ValueError"]
    ELSE IF f.proto = "bb84" THEN [exc |-> "none", value |-> BB84Result(f)]
    ELSE [exc |-> "none", value |-> E91Result(f)]

\* one step of a call's body, by its position
StepFrame(f, r) ==
    CASE f.pc = "seed" -> SeedStep(f, r)
      [] f.pc = "alice_bits" -> AliceBits(f, r)
      [] f.pc = "alice_bases" -> AliceBases(f, r)
      [] f.pc = "bob_bases" -> BobBases(f, r)
      [] f.pc = "eve" -> Eve(f, r)
      [] f.pc = "eve_guess" -> EveGuess(f, r)
      [] f.pc = "reconcile" -> Reconcile(f, r)
      [] f.pc = "choice" -> ChoiceStep(f, r)
      [] f.pc = "e91_alice" -> E91Alice(f, r)
      [] f.pc = "e91_bob" -> E91Bob(f, r)

\* the call run to its end with nothing else touching the generator
RECURSIVE RunAlone(_, _)
RunAlone(f, r) ==
    IF f.pc \in {"return", "raise"} THEN f
    ELSE LET s == StepFrame(f, r) IN RunAlone(s.f, s.r)

\* the outcome of protocol(n, _seed = seed) run alone, for an integer seed
\* (the seed step overwrites the generator, so the state before is irrelevant)
AloneOutcome(proto, n, seed) ==
    Outcome(RunAlone([NewFrame(proto, n, seed) EXCEPT !.pc = "seed"], 0))

\* ------------------------------------------------------ st.cache_data
\* The value key hashes the function and its arguments, except those whose
\* name starts with an underscore: _seed is not hashed.
CacheKey(proto, n, seed) == <<proto, n>>

CacheNeverHit(c, key) == FALSE
CacheHit(c, key) == key \in DOMAIN c

\* ------------------------------------------------------ state
VARIABLES
    rng,        \* the state of the generator behind np.random.*
    cache,      \* value key -> [result, seed]  (seed: of the call that computed it)
    locks,      \* value keys whose compute lock is held
    th,         \* script thread -> frame of its current call
    returned,   \* the finished calls
    ncalls      \* calls started

vars == <<rng, cache, locks, th, returned, ncalls>>

Key(f) == CacheKey(f.proto, f.n, f.seed)

Record(f, hit, from_seed, outcome) ==
    [proto |-> f.proto, n |-> f.n, seed |-> f.seed, hit |-> hit,
     from_seed |-> from_seed, others |-> f.others, outcome |-> outcome]

\* the generator is seeded from the operating system when numpy is imported
Init ==
    /\ rng \in 0..(RngMod - 1)
    /\ cache = <<>>
    /\ locks = {}
    /\ th = [t \in Threads |-> IdleFrame]
    /\ returned = {}
    /\ ncalls = 0

\* A thread calls a decorated function: a stored value is returned at once,
\* otherwise the thread goes on to take the key's compute lock.
Call(t, proto, n, seed, limit) ==
    /\ th[t].pc = "idle"
    /\ ncalls < limit
    /\ ncalls' = ncalls + 1
    /\ LET f == NewFrame(proto, n, seed)
       IN IF CacheHit(cache, Key(f))
          THEN /\ returned' = returned \cup {
                       Record(f, TRUE, cache[Key(f)].seed,
                              [exc |-> "none", value |-> cache[Key(f)].result])}
               /\ th' = th
          ELSE /\ th' = [th EXCEPT ![t] = f]
               /\ returned' = returned
    /\ UNCHANGED <<rng, cache, locks>>

\* The compute lock is taken and the store read again under it.
Acquire(t) ==
    /\ th[t].pc = "wait"
    /\ Key(th[t]) \notin locks
    /\ IF CacheHit(cache, Key(th[t]))
       THEN /\ returned' = returned \cup {
                    Record(th[t], TRUE, cache[Key(th[t])].seed,
                           [exc |-> "none", value |-> cache[Key(th[t])].result])}
            /\ th' = [th EXCEPT ![t] = IdleFrame]
            /\ locks' = locks
       ELSE /\ th' = [th EXCEPT ![t].pc = "seed"]
            /\ locks' = locks \cup {Key(th[t])}
            /\ returned' = returned
    /\ UNCHANGED <<rng, cache, ncalls>>

InBody(f) == f.pc \notin {"idle", "wait", "seed", "return", "raise"}

\* Thread t runs the step it is at; the calls of the other threads that are
\* between their seeding and their last draw have run concurrently with it.
Advance(t) ==
    /\ LET s == StepFrame(th[t], rng)
       IN /\ rng' = s.r
          /\ th' = [u \in Threads |->
                      IF u = t THEN s.f
                      ELSE IF InBody(th[u])
                           THEN [th[u] EXCEPT !.others = @ \cup {th[t].seed}]
                           ELSE th[u]]
    /\ UNCHANGED <<cache, locks, returned, ncalls>>

DoSeed(t) ==
    /\ th[t].pc = "seed"
    /\ Advance(t)

DoAliceBits(t) ==
    /\ th[t].pc = "alice_bits"
    /\ Advance(t)

DoAliceBases(t) ==
    /\ th[t].pc = "alice_bases"
    /\ Advance(t)

DoBobBases(t) ==
    /\ th[t].pc = "bob_bases"
    /\ Advance(t)

DoEve(t) ==
    /\ th[t].pc = "eve"
    /\ Advance(t)

DoEveGuess(t) ==
    /\ th[t].pc = "eve_guess"
    /\ Advance(t)

DoReconcile(t) ==
    /\ th[t].pc = "reconcile"
    /\ Advance(t)

DoChoice(t) ==
    /\ th[t].pc = "choice"
    /\ Advance(t)

DoE91Alice(t) ==
    /\ th[t].pc = "e91_alice"
    /\ Advance(t)

DoE91Bob(t) ==
    /\ th[t].pc = "e91_bob"
    /\ Advance(t)

\* The function is left and the key's lock released: a returned value is
\* stored under the key, a raised exception stores nothing.
Return(t) ==
    /\ th[t].pc \in {"return", "raise"}
    /\ cache' = IF th[t].pc = "return"
                THEN (Key(th[t]) :> [result |-> Outcome(th[t]).value,
                                     seed |-> th[t].seed]) @@ cache
                ELSE cache
    /\ returned' = returned \cup {Record(th[t], FALSE, th[t].seed, Outcome(th[t]))}
    /\ locks' = locks \ {Key(th[t])}
    /\ th' = [th EXCEPT ![t] = IdleFrame]
    /\ UNCHANGED <<rng, ncalls>>

\* the steps of the threads in T, which start at most limit calls in all, with
\* n_qubits drawn from Ns and _seed from Ss
Steps(T, Ns, Ss, limit) ==
    \E t \in T :
        \/ \E proto \in Protocols, n \in Ns, seed \in Ss :
               Call(t, proto, n, seed, limit)
        \/ Acquire(t)
        \/ DoSeed(t)
        \/ DoAliceBits(t)
        \/ DoAliceBases(t)
        \/ DoBobBases(t)
        \/ DoEve(t)
        \/ DoEveGuess(t)
        \/ DoReconcile(t)
        \/ DoChoice(t)
        \/ DoE91Alice(t)
        \/ DoE91Bob(t)
        \/ Return(t)

\* one session, any arguments
Next == Steps({"s1"}, QubitArgs, SeedArgs, MaxCalls)
Spec == Init /\ [][Next]_vars

\* two sessions running at once
NextConcurrent == Steps(Threads, ConcurrentQubitArgs, ConcurrentSeedArgs, MaxCalls + 1)
SpecConcurrent == Init /\ [][NextConcurrent]_vars

\* ------------------------------------------------------ properties
Returned(proto) == {x \in returned : x.proto = proto /\ x.outcome.exc = "none"}

SameCall(x, y) == x.proto = y.proto /\ x.n = y.n /\ x.seed = y.seed

\* the frames of the bb84 calls that are under way or about to return
BB84Frames == {th[t] : t \in {u \in Threads : th[u].proto = "bb84"}}

Indices(q) == 1..Len(q)

\* the elements of bits at the positions where flags is true, in order
RECURSIVE Sifted(_, _)
Sifted(bits, flags) ==
    IF bits = <<>> \/ flags = <<>> THEN <<>>
    ELSE (IF Head(flags) THEN <<Head(bits)>> ELSE <<>>)
             \o Sifted(Tail(bits), Tail(flags))

\* C1: a call served from the cache gets a result that was computed with the
\* call's own seed: calls that differ in the seed never share a cache entry.
C1_SeedIsPartOfKey ==
    \A x \in returned : (x.hit /\ x.n >= 1) => x.from_seed = x.seed

\* C2: any two finished calls of the same protocol with the same n_qubits >= 1
\* and the same integer seed returned results equal in every field, whatever
\* else was called before or between them.
C2_SameArgumentsSameResult ==
    \A x, y \in returned :
        (SameCall(x, y) /\ x.n >= 1 /\ x.seed # None) => x.outcome = y.outcome

C2_Witness ==
    \E x, y, z \in returned :
        /\ x # y /\ SameCall(x, y) /\ x.n >= 1 /\ x.seed # None
        /\ x.outcome.exc = "none"
        /\ ~SameCall(x, z)

\* C3: bb84 with an empty error-rate sample (n_qubits = 1) does not fail and
\* returns error_rate 0.0 and eavesdropping_detected false.
C3_DegenerateSampleIsZero ==
    \A x \in returned :
        (x.proto = "bb84" /\ x.n >= 1 /\ x.n \div 2 = 0) =>
            /\ x.outcome.exc = "none"
            /\ ~x.outcome.value.error_rate.nan
            /\ x.outcome.value.error_rate.num = 0
            /\ x.outcome.value.eavesdropping_detected = FALSE

\* C4: a call with n_qubits <= 0 is rejected with a failure: it returns no
\* result record.
C4_NonPositiveRejected ==
    \A x \in returned : x.n <= 0 => x.outcome.exc # "none"

\* C5: a computed call with an integer seed, whose concurrent calls all had
\* other seeds, returns what the same call returns when it runs alone.
C5_ConcurrentCallsIndependent ==
    \A x \in returned :
        (~x.hit /\ x.seed # None /\ \A s \in x.others : s # x.seed) =>
            x.outcome = AloneOutcome(x.proto, x.n, x.seed)

\* C6: in every bb84 result the seven per-index sequences have length
\* n_qubits, and shared_key is bob_bits restricted to the indices where
\* matched_bases is true, in order; so its length is the number of true
\* entries of matched_bases, at most n_qubits.
C6_LengthsAndSharedKey ==
    \A x \in Returned("bb84") :
        LET v == x.outcome.value
        IN /\ Len(v.alice_bits) = x.n
           /\ Len(v.bob_bits) = x.n
           /\ Len(v.alice_bases) = x.n
           /\ Len(v.bob_bases) = x.n
           /\ Len(v.alice_polarizations) = x.n
           /\ Len(v.bob_polarizations) = x.n
           /\ Len(v.matched_bases) = x.n
           /\ v.shared_key = Sifted(v.bob_bits, v.matched_bases)
           /\ Len(v.shared_key) =
                  Cardinality({i \in Indices(v.matched_bases) : v.matched_bases[i]})
           /\ Len(v.shared_key) <= x.n

C6_Witness ==
    \E x \in Returned("bb84") :
        LET v == x.outcome.value
        IN /\ ~x.hit
           /\ \E i, j \in Indices(v.matched_bases) :
                  v.matched_bases[i] /\ ~v.matched_bases[j]

\* C7: in every bb84 result, at every index, matched_bases is true exactly
\* when Alice's and Bob's bases are equal; where it is true Bob's polarization
\* is Alice's, where it is false Bob's polarization is the unmeasurable marker.
C7_MatchedBases ==
    \A x \in Returned("bb84") :
        LET v == x.outcome.value
        IN \A i \in Indices(v.matched_bases) :
               /\ v.matched_bases[i] <=> (v.alice_bases[i] = v.bob_bases[i])
               /\ v.matched_bases[i] =>
                      v.bob_polarizations[i] = v.alice_polarizations[i]
               /\ ~v.matched_bases[i] => v.bob_polarizations[i] = "?"

C7_Witness ==
    /\ \E x \in Returned("bb84") :
           LET v == x.outcome.value
           IN \E i, j \in Indices(v.matched_bases) :
                  v.matched_bases[i] /\ ~v.matched_bases[j]
    /\ \E x \in Returned("bb84") :
           LET v == x.outcome.value
           IN \E j \in Indices(v.matched_bases) :
                  ~v.matched_bases[j] /\ v.bob_bases[j] = "X"

\* C8: in every result the flag agrees with the returned rate: bb84's
\* eavesdropping_detected is error_rate > 0.15, e91's eavesdropped is
\* correlation_rate < 0.7, and correlation_rate is the number of indices where
\* the two basis sequences are equal over n_qubits (nan when there is none).
C8_ThresholdConsistency ==
    /\ \A x \in Returned("bb84") :
           LET v == x.outcome.value
           IN v.eavesdropping_detected <=>
                  (~v.error_rate.nan /\ 100 * v.error_rate.num > 15 * v.error_rate.den)
    /\ \A x \in Returned("e91") :
           LET v == x.outcome.value
               c == v.correlation_rate
           IN /\ v.eavesdropped <=> (~c.nan /\ 100 * c.num < 70 * c.den)
              /\ c.nan <=> (x.n = 0)
              /\ ~c.nan =>
                     /\ c.den = x.n
                     /\ c.num = Cardinality({i \in 1..x.n :
                                               v.alice_bases[i] = v.bob_bases[i]})

C8_Witness ==
    /\ \E x \in Returned("bb84") : x.outcome.value.eavesdropping_detected
    /\ \E x \in Returned("e91") : x.n >= 1 /\ ~x.outcome.value.eavesdropped

\* C9: in bb84, at every index where the bases are equal, Bob's bit is Eve's
\* re-guessed bit if Eve intervened there and Alice's bit otherwise; so a
\* matched index without intervention has equal bits, and an index where the
\* bits differ is a mismatched one or an intercepted one.
C9_BobBitAtMatchedIndex ==
    \A f \in BB84Frames :
        \A i \in Indices(f.bob_results) :
            /\ f.alice_bases[i] = f.bob_bases[i] =>
                   f.bob_results[i] = IF f.eve_interventions[i]
                                      THEN f.eve_values[i][1]
                                      ELSE f.alice_bits[i]
            /\ (f.alice_bases[i] = f.bob_bases[i] /\ ~f.eve_interventions[i]) =>
                   f.bob_results[i] = f.alice_bits[i]
            /\ f.bob_results[i] # f.alice_bits[i] =>
                   (f.alice_bases[i] # f.bob_bases[i] \/ f.eve_interventions[i])

C9_Witness ==
    \E f \in BB84Frames :
        /\ f.pc = "return"
        /\ \E i, j \in Indices(f.bob_results) :
               /\ f.alice_bases[i] = f.bob_bases[i] /\ f.eve_interventions[i]
               /\ f.bob_results[i] # f.alice_bits[i]
               /\ f.alice_bases[j] = f.bob_bases[j] /\ ~f.eve_interventions[j]

\* C10: for n_qubits >= 1, bb84's error_rate is taken over floor(n_qubits / 2)
\* pairwise distinct indices of [0, n_qubits), is the number of those where
\* Alice's and Bob's bits differ divided by the size of the subset, and lies
\* in [0, 1].
C10_ErrorRateOverSubset ==
    \A f \in BB84Frames :
        (f.pc = "return" /\ f.n >= 1) =>
            LET sub == f.comparison_subset
                e == f.error_rate
            IN /\ Len(sub) = f.n \div 2
               /\ \A i \in Indices(sub) : sub[i] \in 0..(f.n - 1)
               /\ \A i, j \in Indices(sub) : i # j => sub[i] # sub[j]
               /\ ~e.nan
               /\ e.den = Len(sub)
               /\ e.num = Cardinality({i \in Indices(sub) :
                              f.alice_bits[sub[i] + 1] # f.bob_results[sub[i] + 1]})
               /\ 0 <= e.num /\ e.num <= e.den

=============================================================================
